---- MODULE Spec2Model ----
(***************************************************************************)
(* Visibility culling and multi-draw batching of a renderable              *)
(* (createRenderable: cull / uncull / render).                             *)
(*                                                                         *)
(* Arrays are functions over 0..n-1, so indices read as in the source.     *)
(* A MultiDrawBaseData object lives in `heap` under an id; mdbData and the *)
(* elements of mdbDataList are ids, so that `mdbDataList[0] = mdbData`     *)
(* makes both names denote one object, as in the source.  Id 0 stands for  *)
(* undefined (a hole of mdbDataList, or no object).                        *)
(*                                                                         *)
(* The cull plane and the frustum enter cull through the two imported      *)
(* tests only; a camera is therefore given by what the tests return for    *)
(* each cell sphere: cam[i].d (plane distance of the centre) and           *)
(* cam[i].vis (frustum intersects the sphere).                             *)
(***************************************************************************)
EXTENDS Integers, Sequences, FiniteSets, TLC

\* ---------------------------------------------------------------- bounds
MaxCells == 3
MaxVersion == 1
\* updates of the LOD table in the runs that follow the table through many changes
MaxChanges == 3
\* updates of uAlpha after which alpha and alphaFactor are no longer changed
MaxUploads == 3
\* props.steps, light.count, and the calls of shadowsRenderable.update() that are followed
MaxSteps == 3
MaxLights == 3
MaxShadowUpdates == 3
\* instances of a non-empty cell, radius of a cell sphere, values.drawCount
CellSize == 3
CellRadius == 2
DrawCount == 6

\* values of uLod's (minDistance, maxDistance)
ULods == {<<0, 0>>, <<12, 30>>}
\* LOD tables: [minDistance, maxDistance, overlap, count, sizeFactor] per band
Band(mn, mx, ov, cnt, sf) == <<mn, mx, ov, cnt, sf>>
LodTables ==
    { << >>,
      << Band(0, 20, 5, 6, 1) >>,
      << Band(0, 50, 10, 6, 1), Band(40, 100, 10, 3, 2) >> }

\* ---------------------------------------------------------------- arrays
Zeros(n) == [i \in 0..(n - 1) |-> 0]

\* a typed-array store: an index outside the array is ignored
SetAt(a, i, x) == IF i \in DOMAIN a THEN [a EXCEPT ![i] = x] ELSE a

Length(a) == Cardinality(DOMAIN a)

\* ------------------------------------------------------- MultiDrawBaseData
\* getMdbData's else branch: the freshly allocated object.  firsts, offsets and
\* baseVertices are allocated with the same length and never written afterwards;
\* the three arrays that cull writes are kept.
NewMdbData(cellCount) ==
    [ counts         |-> Zeros(cellCount),
      instanceCounts |-> Zeros(cellCount),
      baseInstances  |-> Zeros(cellCount),
      count          |-> 0,
      uniforms       |-> << >> ]

\* the least id not in use
FreshId(h) == CHOOSE n \in 1..(Cardinality(DOMAIN h) + 1) : n \notin DOMAIN h

\* getMdbData without the length test of line 50: an existing object is always kept
getMdbData_NoGrow(h, cellCount, ref) ==
    IF ref # 0
    THEN [heap |-> h, ref |-> ref]
    ELSE LET id == FreshId(h)
         IN  [heap |-> [x \in DOMAIN h \cup {id} |->
                           IF x = id THEN NewMdbData(cellCount) ELSE h[x]],
              ref |-> id]

\* getMdbData(cellCount, mdbData): the heap after the call and the id returned
getMdbData(h, cellCount, ref) ==
    IF ref # 0 /\ Length(h[ref].instanceCounts) >= cellCount
    THEN [heap |-> h, ref |-> ref]
    ELSE LET id == FreshId(h)
         IN  [heap |-> [x \in DOMAIN h \cup {id} |->
                           IF x = id THEN NewMdbData(cellCount) ELSE h[x]],
              ref |-> id]

\* ------------------------------------------------- imported geometry tests
\* s3fromArray(s, cellSpheres, i * 4): only the radius is kept of the sphere,
\* its centre enters through the camera's answers
Radius(grid, i) == grid.cellSpheres[i]

\* Plane3D.distanceToPoint(cameraPlane, s.center) for cell i
p3distanceToPoint(cam, i) == cam[i].d

\* Frustum3D.intersectsSphere3D(frustum, s) for cell i
f3intersectsSphere3D(cam, i) == cam[i].vis

\* --------------------------------------------------------------- cull
\* SetLength that only ever grows the list: positions beyond n are kept
SetLength_NoTruncate(list, n) ==
    [i \in (0..(n - 1)) \cup DOMAIN list |-> IF i \in DOMAIN list THEN list[i] ELSE 0]

\* mdbDataList.length = n
SetLength(list, n) ==
    [i \in 0..(n - 1) |-> IF i \in DOMAIN list THEN list[i] ELSE 0]

\* ['uLod', ValueCell.create(Vec4())]
NewULodUniform == [name |-> "uLod", value |-> <<0, 0, 0, 0>>, version |-> 0]

\* ValueCell.update(cell, Vec4.set(cell.ref.value, x, y, z, w))
ValueCellUpdate(cell, v) ==
    [cell EXCEPT !.value = v, !.version = cell.version + 1]

\* for (i ...) { mdbDataList[i] = getMdbData(cellCount, mdbDataList[i]);
\*               mdbDataList[i].count = 0; }
RECURSIVE EnsureBatches(_, _, _, _, _)
EnsureBatches(h, list, cellCount, i, il) ==
    IF i >= il THEN [heap |-> h, list |-> list]
    ELSE LET r  == getMdbData(h, cellCount, list[i])
             h2 == [r.heap EXCEPT ![r.ref].count = 0]
         IN  EnsureBatches(h2, [list EXCEPT ![i] = r.ref], cellCount, i + 1, il)

\* RebuildOne that takes the band's count (index 3) for its sizeFactor (index 4)
RebuildOne_CountForSizeFactor(b, level) ==
    LET u0 == IF Len(b.uniforms) # 1 THEN << NewULodUniform >> ELSE b.uniforms
        c  == ValueCellUpdate(u0[1], <<level[1], level[2], level[3], level[4]>>)
    IN  [b EXCEPT !.uniforms = << c >>]

\* one band's uniforms under the version gate
RebuildOne(b, level) ==
    LET u0 == IF Len(b.uniforms) # 1 THEN << NewULodUniform >> ELSE b.uniforms
        c  == ValueCellUpdate(u0[1], <<level[1], level[2], level[3], level[5]>>)
    IN  [b EXCEPT !.uniforms = << c >>]

\* for (i ...) { if (uniforms.length !== 1) {...}; ValueCell.update(...) }
RECURSIVE RebuildUniforms(_, _, _, _, _)
RebuildUniforms(h, list, lodLevels, i, il) ==
    IF i >= il THEN h
    ELSE RebuildUniforms([h EXCEPT ![list[i]] = RebuildOne(h[list[i]], lodLevels[i + 1])],
                         list, lodLevels, i + 1, il)

\* AppendBand whose merge forgets line 136: the last entry is not extended
AppendBand_NoExtend(l, begin, count, drawCount) ==
    LET o == l.count
    IN  IF o > 0 /\ l.baseInstances[o - 1] + l.instanceCounts[o - 1] = begin
               /\ l.counts[o - 1] = drawCount
        THEN l
        ELSE [l EXCEPT !.counts = SetAt(l.counts, o, drawCount),
                       !.instanceCounts = SetAt(l.instanceCounts, o, count),
                       !.baseInstances = SetAt(l.baseInstances, o, begin),
                       !.count = o + 1]

\* the merge-or-append of one range into band j's batch
AppendBand(l, begin, count, drawCount) ==
    LET o == l.count
    IN  IF o > 0 /\ l.baseInstances[o - 1] + l.instanceCounts[o - 1] = begin
               /\ l.counts[o - 1] = drawCount
        THEN [l EXCEPT !.instanceCounts =
                          SetAt(l.instanceCounts, o - 1, l.instanceCounts[o - 1] + count)]
        ELSE [l EXCEPT !.counts = SetAt(l.counts, o, drawCount),
                       !.instanceCounts = SetAt(l.instanceCounts, o, count),
                       !.baseInstances = SetAt(l.baseInstances, o, begin),
                       !.count = o + 1]

\* BandRejects with <= and >= for < and >: a sphere that touches a bound is rejected
BandRejects_Exclusive(d, r, level) == d + r <= level[1] \/ d - r >= level[2]

\* the two `continue` tests of the band loop
BandRejects(d, r, level) == d + r < level[1] \/ d - r > level[2]

\* AppendBands that leaves the band loop after the first band that takes the cell
RECURSIVE AppendBands_FirstBandOnly(_, _, _, _, _, _, _, _)
AppendBands_FirstBandOnly(h, list, lodLevels, begin, count, d, r, j) ==
    IF j >= Len(lodLevels) THEN h
    ELSE LET lv == lodLevels[j + 1]
         IN  IF BandRejects(d, r, lv)
             THEN AppendBands_FirstBandOnly(h, list, lodLevels, begin, count, d, r, j + 1)
             ELSE [h EXCEPT ![list[j]] = AppendBand(h[list[j]], begin, count, lv[4])]

\* for (j ...) over the bands, for one surviving cell
RECURSIVE AppendBands(_, _, _, _, _, _, _, _)
AppendBands(h, list, lodLevels, begin, count, d, r, j) ==
    IF j >= Len(lodLevels) THEN h
    ELSE LET lv == lodLevels[j + 1]
             h2 == IF BandRejects(d, r, lv) THEN h
                   ELSE [h EXCEPT ![list[j]] = AppendBand(h[list[j]], begin, count, lv[4])]
         IN  AppendBands(h2, list, lodLevels, begin, count, d, r, j + 1)

\* hasLod that is always set: the uLod range is tested even when it is (0, 0)
HasLod_Always(uLod) == uLod = uLod

\* hasLod = minDistance !== 0 || maxDistance !== 0
HasLod(uLod) == uLod[1] # 0 \/ uLod[2] # 0

\* RejectedLod without line 126: an empty cell goes on to the band loop
RejectedLod_KeepsEmpty(in, i) ==
    LET d == p3distanceToPoint(in.cam, i)
        r == Radius(in.grid, i)
    IN  \/ HasLod(in.uLod) /\ (d + r < in.uLod[1] \/ d - r > in.uLod[2])
        \/ ~f3intersectsSphere3D(in.cam, i)

\* the `continue` tests of a cell before the band loop, multi-band path
RejectedLod(in, i) ==
    LET d == p3distanceToPoint(in.cam, i)
        r == Radius(in.grid, i)
    IN  \/ HasLod(in.uLod) /\ (d + r < in.uLod[1] \/ d - r > in.uLod[2])
        \/ ~f3intersectsSphere3D(in.cam, i)
        \/ in.grid.cellOffsets[i + 1] - in.grid.cellOffsets[i] = 0

\* for (i ...) over the cells, multi-band path
RECURSIVE CullCellsLod(_, _, _, _, _)
CullCellsLod(h, list, in, lodLevels, i) ==
    IF i >= in.grid.cellCount THEN h
    ELSE LET begin == in.grid.cellOffsets[i]
             end   == in.grid.cellOffsets[i + 1]
             h2    == IF RejectedLod(in, i) THEN h
                      ELSE AppendBands(h, list, lodLevels, begin, end - begin,
                                       p3distanceToPoint(in.cam, i), Radius(in.grid, i), 0)
         IN  CullCellsLod(h2, list, in, lodLevels, i + 1)

\* AppendSingle without the merge of lines 165-166: every range is a new entry
AppendSingle_NeverMerges(w, begin, count, drawCount) ==
    [o |-> w.o + 1,
     b |-> [w.b EXCEPT !.counts = SetAt(w.b.counts, w.o, drawCount),
                       !.instanceCounts = SetAt(w.b.instanceCounts, w.o, count),
                       !.baseInstances = SetAt(w.b.baseInstances, w.o, begin)]]

\* AppendSingle without the contiguity test of line 165: any range after the first
\* extends the last entry
AppendSingle_AlwaysMerges(w, begin, count, drawCount) ==
    LET o == w.o
        b == w.b
    IN  IF o > 0
        THEN [w EXCEPT !.b.instanceCounts =
                          SetAt(b.instanceCounts, o - 1, b.instanceCounts[o - 1] + count)]
        ELSE [o |-> o + 1,
              b |-> [b EXCEPT !.counts = SetAt(b.counts, o, drawCount),
                              !.instanceCounts = SetAt(b.instanceCounts, o, count),
                              !.baseInstances = SetAt(b.baseInstances, o, begin)]]

\* the merge-or-append of one range into the single batch; o is the local count
AppendSingle(w, begin, count, drawCount) ==
    LET o == w.o
        b == w.b
    IN  IF o > 0 /\ b.baseInstances[o - 1] + b.instanceCounts[o - 1] = begin
        THEN [w EXCEPT !.b.instanceCounts =
                          SetAt(b.instanceCounts, o - 1, b.instanceCounts[o - 1] + count)]
        ELSE [o |-> o + 1,
              b |-> [b EXCEPT !.counts = SetAt(b.counts, o, drawCount),
                              !.instanceCounts = SetAt(b.instanceCounts, o, count),
                              !.baseInstances = SetAt(b.baseInstances, o, begin)]]

\* RejectedSingle without line 158: the frustum is not consulted
RejectedSingle_NoFrustum(in, i) ==
    LET r == Radius(in.grid, i)
    IN  \/ HasLod(in.uLod) /\ (\/ p3distanceToPoint(in.cam, i) + r < in.uLod[1]
                                \/ p3distanceToPoint(in.cam, i) - r > in.uLod[2])
        \/ in.grid.cellOffsets[i + 1] - in.grid.cellOffsets[i] = 0

\* the `continue` tests of a cell, single-batch path
RejectedSingle(in, i) ==
    LET r == Radius(in.grid, i)
    IN  \/ HasLod(in.uLod) /\ (\/ p3distanceToPoint(in.cam, i) + r < in.uLod[1]
                                \/ p3distanceToPoint(in.cam, i) - r > in.uLod[2])
        \/ ~f3intersectsSphere3D(in.cam, i)
        \/ in.grid.cellOffsets[i + 1] - in.grid.cellOffsets[i] = 0

\* for (i ...) over the cells, single-batch path; w = [o, b]
RECURSIVE CullCellsSingle(_, _, _)
CullCellsSingle(w, in, i) ==
    IF i >= in.grid.cellCount THEN w
    ELSE LET begin == in.grid.cellOffsets[i]
             end   == in.grid.cellOffsets[i + 1]
             w2    == IF RejectedSingle(in, i) THEN w
                      ELSE AppendSingle(w, begin, end - begin, in.drawCount)
         IN  CullCellsSingle(w2, in, i + 1)

\* objects a renderable can still reach
Reachable(st) == ({st.mdbData} \cup {st.mdbDataList[i] : i \in DOMAIN st.mdbDataList}) \ {0}

Collect(st) == [st EXCEPT !.heap = [x \in Reachable(st) |-> st.heap[x]]]

\* CullLodFrom without the version test of line 103: the uniforms are rebuilt always
CullLodFrom_NoGate(st, in, lod, e) ==
    LET lodLevels == lod.value
        il   == Len(lodLevels)
        h1   == RebuildUniforms(e.heap, e.list, lodLevels, 0, il)
    IN  [st EXCEPT !.heap = CullCellsLod(h1, e.list, in, lodLevels, 0),
                   !.mdbDataList = e.list,
                   !.lodLevelsVersion = lod.version]

\* CullLodFrom with the cell loop inside the version test of line 103: the bands are
\* filled only when the table's version is not the recorded one
CullLodFrom_LoopInsideGate(st, in, lod, e) ==
    LET lodLevels == lod.value
        il   == Len(lodLevels)
        gate == lod.version # st.lodLevelsVersion
    IN  IF gate
        THEN [st EXCEPT !.heap = CullCellsLod(RebuildUniforms(e.heap, e.list, lodLevels, 0, il),
                                              e.list, in, lodLevels, 0),
                        !.mdbDataList = e.list,
                        !.lodLevelsVersion = lod.version]
        ELSE [st EXCEPT !.heap = e.heap, !.mdbDataList = e.list]

\* the multi-band branch of cull, after the batch list is sized (e)
CullLodFrom(st, in, lod, e) ==
    LET lodLevels == lod.value
        il   == Len(lodLevels)
        gate == lod.version # st.lodLevelsVersion
        h1   == IF gate THEN RebuildUniforms(e.heap, e.list, lodLevels, 0, il) ELSE e.heap
    IN  [st EXCEPT !.heap = CullCellsLod(h1, e.list, in, lodLevels, 0),
                   !.mdbDataList = e.list,
                   !.lodLevelsVersion = IF gate THEN lod.version ELSE @]

\* the multi-band branch of cull
CullLod(st, in, lod) ==
    CullLodFrom(st, in, lod,
                EnsureBatches(st.heap, SetLength(st.mdbDataList, Len(lod.value)),
                              in.grid.cellCount, 0, Len(lod.value)))

\* the single-batch branch of cull
CullSingle(st, in) ==
    LET g  == getMdbData(st.heap, in.grid.cellCount, st.mdbData)
        w  == CullCellsSingle([o |-> 0, b |-> g.heap[g.ref]], in, 0)
        b2 == [w.b EXCEPT !.count = w.o, !.uniforms = << >>]
    IN  [st EXCEPT !.heap = [g.heap EXCEPT ![g.ref] = b2],
                   !.mdbData = g.ref,
                   !.mdbDataList = [i \in {0} |-> g.ref]]

\* cull without line 85: an early return leaves cullEnabled as it was
cull_KeepsEnabled(st, in, lod) ==
    IF in.drawCount = 0 \/ in.instanceCount = 0 \/ ~in.grid.present
    THEN st
    ELSE LET body == IF lod.present /\ Len(lod.value) > 0
                     THEN CullLod(st, in, lod)
                     ELSE CullSingle(st, in)
         IN  Collect([body EXCEPT !.cullEnabled = TRUE])

\* cull without line 88: an instance count of 0 does not return early
cull_NoInstanceCheck(st, in, lod) ==
    IF in.drawCount = 0 \/ ~in.grid.present
    THEN [st EXCEPT !.cullEnabled = FALSE]
    ELSE LET body == IF lod.present /\ Len(lod.value) > 0
                     THEN CullLod(st, in, lod)
                     ELSE CullSingle(st, in)
         IN  Collect([body EXCEPT !.cullEnabled = TRUE])

\* cull that enables culling at line 187 only if some batch got an entry
cull_DisabledWhenEmpty(st, in, lod) ==
    IF in.drawCount = 0 \/ in.instanceCount = 0 \/ ~in.grid.present
    THEN [st EXCEPT !.cullEnabled = FALSE]
    ELSE LET body == IF lod.present /\ Len(lod.value) > 0
                     THEN CullLod(st, in, lod)
                     ELSE CullSingle(st, in)
         IN  Collect([body EXCEPT !.cullEnabled =
                         \E j \in DOMAIN body.mdbDataList :
                             body.heap[body.mdbDataList[j]].count > 0])

\* cull(cameraPlane, frustum), reading values.* as `in` and values.lodLevels as `lod`
cull(st, in, lod) ==
    IF in.drawCount = 0 \/ in.instanceCount = 0 \/ ~in.grid.present
    THEN [st EXCEPT !.cullEnabled = FALSE]
    ELSE LET body == IF lod.present /\ Len(lod.value) > 0
                     THEN CullLod(st, in, lod)
                     ELSE CullSingle(st, in)
         IN  Collect([body EXCEPT !.cullEnabled = TRUE])

\* --------------------------------------------------------------- render
\* clamp(v, min, max)
clamp(v, mn, mx) == IF v < mn THEN mn ELSE IF v > mx THEN mx ELSE v

\* ValueCell.updateIfChanged(cell, value)
updateIfChanged(cell, v) ==
    IF cell.value # v THEN [cell EXCEPT !.value = v, !.version = cell.version + 1]
    ELSE cell

\* EffectiveAlpha without the clamp
EffectiveAlpha_NoClamp(a, f) == a * f

\* alpha and alphaFactor are counted in halves, their product and uAlpha in
\* quarters: 1.0 is 2 halves, resp. 4 quarters
EffectiveAlpha(a, f) == clamp(a * f, 0, 4)

\* ------------------------------------------------------------ the inputs
RECURSIVE Offsets(_, _)
\* cellOffsets of the grid whose cells have the sizes sz[0], sz[1], ...
Offsets(sz, n) ==
    IF n = 0 THEN [i \in {0} |-> 0]
    ELSE LET p == Offsets(sz, n - 1)
         IN  [i \in 0..n |-> IF i < n THEN p[i] ELSE p[n - 1] + sz[n - 1]]

GridOf(n, sz, rad) ==
    [present |-> TRUE, cellCount |-> n, cellOffsets |-> Offsets(sz, n), cellSpheres |-> rad]

NoGrid ==
    [present |-> FALSE, cellCount |-> 0, cellOffsets |-> Offsets(<< >>, 0), cellSpheres |-> << >>]

\* the instance grids of one cell and of MaxCells cells of CellSize instances each,
\* and the same with cell 1 empty: cellOffsets partitions the instances in cell order
SizesOf(n) ==
    { [i \in 0..(n - 1) |-> CellSize] } \cup
    (IF n >= 2 THEN { [i \in 0..(n - 1) |-> IF i = 1 THEN 0 ELSE CellSize] } ELSE {})

Grids ==
    UNION { { GridOf(n, sz, [i \in 0..(n - 1) |-> CellRadius]) : sz \in SizesOf(n) }
            : n \in {1, MaxCells} }

\* what the two tests return for a cell: near and visible, far and visible, outside
Near    == [d |-> 10, vis |-> TRUE]
Far     == [d |-> 45, vis |-> TRUE]
Outside == [d |-> 45, vis |-> FALSE]

\* a grid of one cell of sz instances
OneCell(sz) == GridOf(1, [i \in {0} |-> sz], [i \in {0} |-> CellRadius])

\* the cameras: every cell near and visible, except that cell 1 (the one that may be
\* empty) may also be far, or outside the frustum
Cameras(n) ==
    { [i \in 0..(n - 1) |-> IF i = 1 THEN o ELSE Near] : o \in {Near, Far, Outside} }

\* what one cull call reads: values.drawCount, values.instanceCount,
\* values.instanceGrid, values.uLod, and the camera
GridInputs(grids) ==
    UNION { { [drawCount |-> DrawCount, instanceCount |-> g.cellOffsets[g.cellCount],
               grid |-> g, uLod |-> u, cam |-> c] : u \in ULods, c \in Cameras(g.cellCount) }
            : g \in grids }

\* the inputs with one of the three preconditions false
EarlyInputs ==
    { [drawCount |-> 0, instanceCount |-> CellSize, grid |-> OneCell(CellSize),
       uLod |-> <<0, 0>>, cam |-> [i \in {0} |-> Near]] }
    \cup { [drawCount |-> DrawCount, instanceCount |-> 0, grid |-> OneCell(0),
            uLod |-> <<0, 0>>, cam |-> [i \in {0} |-> Near]] }
    \cup { [drawCount |-> DrawCount, instanceCount |-> CellSize, grid |-> NoGrid,
            uLod |-> <<0, 0>>, cam |-> << >>] }

Inputs == GridInputs(Grids) \cup EarlyInputs

\* ------------------------------------------------------------- the state
VARIABLES
    heap,             \* the MultiDrawBaseData objects, by id
    mdbData,          \* let mdbData (an id)
    mdbDataList,      \* const mdbDataList (ids, 0-based)
    cullEnabled,      \* let cullEnabled
    lodLevelsVersion, \* let lodLevelsVersion
    lodLevels,        \* values.lodLevels: [present, value, version]
    alpha,            \* values.alpha.ref.value
    alphaFactor,      \* state.alphaFactor
    uAlpha,           \* values.uAlpha: [value, version]
    passed,           \* third argument of renderItem.render, if the last call was render
    op,               \* the last call made
    in0,              \* what the last call read, if it was cull
    repeated,         \* the last two calls were culls that read the same (history)
    rebuilds,         \* the culls so far that rewrote uniforms of a band (history)
    expectBatches,    \* the most recent cull or uncull was a cull with all three
                      \* preconditions true (history, not read by the renderable)
    shadowValues,     \* ShadowPass: the defines dOrthographic, dSteps, dLightCount of
                      \* shadowsRenderable.values
    shadowLog         \* ShadowPass: the calls of shadowsRenderable.update() so far, whether
                      \* the last update made one, and what that update was given (history)

vars == <<heap, mdbData, mdbDataList, cullEnabled, lodLevelsVersion, lodLevels,
          alpha, alphaFactor, uAlpha, passed, op, in0, repeated, rebuilds, expectBatches,
                   shadowValues, shadowLog>>

\* the closure variables of createRenderable as one record
State ==
    [heap |-> heap, mdbData |-> mdbData, mdbDataList |-> mdbDataList,
     cullEnabled |-> cullEnabled, lodLevelsVersion |-> lodLevelsVersion]

\* the closure variables of a renderable that createRenderable has just returned
FreshState ==
    [heap |-> [x \in {1} |-> NewMdbData(0)], mdbData |-> 1, mdbDataList |-> << >>,
     cullEnabled |-> FALSE, lodLevelsVersion |-> -1]

NoInput ==
    [drawCount |-> 0, instanceCount |-> 0, grid |-> NoGrid, uLod |-> <<0, 0>>, cam |-> << >>]

Init ==
    /\ heap = [x \in {1} |-> NewMdbData(0)]
    /\ mdbData = 1
    /\ mdbDataList = << >>
    /\ cullEnabled = FALSE
    /\ lodLevelsVersion = -1
    /\ \E pr \in BOOLEAN, t \in LodTables :
          lodLevels = [present |-> pr, value |-> IF pr THEN t ELSE << >>, version |-> 0]
    /\ alpha = 2
    /\ alphaFactor = 1
    /\ uAlpha = [value |-> 2, version |-> 0]
    /\ passed = "none"
    /\ op = "init"
    /\ in0 = NoInput
    /\ repeated = FALSE
    /\ rebuilds = 0
    /\ expectBatches = FALSE
    /\ shadowValues = [dOrthographic |-> 0, dSteps |-> 1, dLightCount |-> 0]
    /\ shadowLog = [updates |-> 0, called |-> FALSE, last |-> << >>]

\* ValueCell.update has run on the uniform of some batch of st's list: the batch has
\* its one uniform, and had none, or one of another version, in the heap h before
Rewrote(h, st) ==
    \E j \in DOMAIN st.mdbDataList :
        LET id == st.mdbDataList[j]
            b  == st.heap[id]
        IN  /\ Len(b.uniforms) = 1
            /\ \/ id \notin DOMAIN h
               \/ Len(h[id].uniforms) # 1
               \/ h[id].uniforms[1].version # b.uniforms[1].version

\* the three conditions under which cull does not return early, as read from `in`
Preconditions(in) == in.drawCount # 0 /\ in.instanceCount # 0 /\ in.grid.present

\* renderable.cull(cameraPlane, frustum)
Cull(in) ==
    \E st \in {cull(State, in, lodLevels)} :
        /\ heap' = st.heap
        /\ mdbData' = st.mdbData
        /\ mdbDataList' = st.mdbDataList
        /\ cullEnabled' = st.cullEnabled
        /\ lodLevelsVersion' = st.lodLevelsVersion
        /\ op' = "cull"
        /\ in0' = in
        /\ repeated' = (op = "cull" /\ in = in0)
        /\ rebuilds' = IF Rewrote(heap, st) THEN rebuilds + 1 ELSE rebuilds
        /\ expectBatches' = Preconditions(in)
        /\ passed' = "none"
        /\ UNCHANGED <<lodLevels, alpha, alphaFactor, uAlpha, shadowValues, shadowLog>>

CullAny == \E in \in Inputs : Cull(in)

\* renderable.uncull()
Uncull ==
    /\ cullEnabled' = FALSE
    /\ op' = "uncull"
    /\ in0' = NoInput
    /\ repeated' = FALSE
    /\ expectBatches' = FALSE
    /\ passed' = "none"
    /\ UNCHANGED <<heap, mdbData, mdbDataList, lodLevelsVersion, lodLevels,
                   alpha, alphaFactor, uAlpha, rebuilds, shadowValues, shadowLog>>

\* renderable.render(variant, sharedTexturesCount)
Render ==
    /\ uAlpha' = updateIfChanged(uAlpha, EffectiveAlpha(alpha, alphaFactor))
    /\ passed' = IF cullEnabled THEN "mdbDataList" ELSE "undefined"
    /\ op' = "render"
    /\ in0' = NoInput
    /\ repeated' = FALSE
    /\ UNCHANGED <<heap, mdbData, mdbDataList, cullEnabled, lodLevelsVersion, lodLevels,
                   alpha, alphaFactor, rebuilds, expectBatches,
                   shadowValues, shadowLog>>

\* ValueCell.update(values.lodLevels, t), done by the owner of the values
SetLodLevels ==
    /\ lodLevels.present
    /\ lodLevels.version < MaxVersion
    /\ \E t \in LodTables :
          lodLevels' = [lodLevels EXCEPT !.value = t, !.version = lodLevels.version + 1]
    /\ op' = "setLodLevels"
    /\ in0' = NoInput
    /\ repeated' = FALSE
    /\ passed' = "none"
    /\ UNCHANGED <<heap, mdbData, mdbDataList, cullEnabled, lodLevelsVersion,
                   alpha, alphaFactor, uAlpha, rebuilds, expectBatches,
                   shadowValues, shadowLog>>

Next == CullAny \/ Uncull \/ Render \/ SetLodLevels

Spec == Init /\ [][Next]_vars

\* ------------------------------------------------- the four-cell example
\* cellOffsets [0, 10, 10, 25, 40]: cell 1 is empty
ExampleGrid ==
    GridOf(4, [i \in 0..3 |-> IF i = 0 THEN 10 ELSE IF i = 1 THEN 0 ELSE 15],
              [i \in 0..3 |-> CellRadius])

\* every cell near and visible, except that one cell may be far or outside
ExampleCameras ==
    { [i \in 0..3 |-> IF i = k THEN o ELSE Near] : k \in 0..3, o \in {Near, Far, Outside} }

ExampleInputs ==
    { [drawCount |-> DrawCount, instanceCount |-> 40, grid |-> ExampleGrid,
       uLod |-> u, cam |-> c] : u \in ULods, c \in ExampleCameras }

CullExample == \E in \in ExampleInputs : Cull(in)

NextExample == CullExample \/ Uncull \/ Render \/ SetLodLevels

SpecExample == Init /\ [][NextExample]_vars

\* ------------------------------------------- grids that are no partition
\* two cells whose cellOffsets decrease: cell 1 ends before it begins
DecreasingGrid ==
    [present |-> TRUE, cellCount |-> 2,
     cellOffsets |-> [i \in 0..2 |-> IF i = 0 THEN 0 ELSE IF i = 1 THEN CellSize ELSE 1],
     cellSpheres |-> [i \in 0..1 |-> CellRadius]]

\* every cell near and visible, except that one cell may be far or outside
TwoCellCameras ==
    { [i \in 0..1 |-> IF i = k THEN o ELSE Near] : k \in 0..1, o \in {Near, Far, Outside} }

\* culls of the decreasing grid, and of a well-ordered grid of two cells whose last
\* offset is not values.instanceCount
InvalidInputs ==
    { [drawCount |-> DrawCount, instanceCount |-> n, grid |-> g, uLod |-> u, cam |-> c] :
        n \in {1, CellSize}, u \in ULods, c \in TwoCellCameras,
        g \in {DecreasingGrid,
               GridOf(2, [i \in 0..1 |-> CellSize], [i \in 0..1 |-> CellRadius])} }

CullInvalid == \E in \in InvalidInputs : Cull(in)

NextInvalid == CullInvalid \/ Uncull \/ Render \/ SetLodLevels

SpecInvalid == Init /\ [][NextInvalid]_vars

\* ------------------------------------------- spheres that touch a bound
\* plane distances at which a sphere of radius CellRadius touches a bound of the uLod
\* range (12, 30) or of a band ([0, 20], [0, 50], [40, 100]) from inside, and the
\* distances one further out
TouchingDistances ==
    { 12 - CellRadius, 30 + CellRadius, 20 + CellRadius, 40 - CellRadius, 50 + CellRadius }

BoundaryDistances == TouchingDistances \cup
    { 11 - CellRadius, 31 + CellRadius, 21 + CellRadius, 39 - CellRadius, 51 + CellRadius }

\* culls of two visible cells: cell 0 at the lower bound of the uLod range or just
\* below it, cell 1 at any of the boundary distances
BoundaryInputs ==
    { [drawCount |-> DrawCount, instanceCount |-> 2 * CellSize,
       grid |-> GridOf(2, [i \in 0..1 |-> CellSize], [i \in 0..1 |-> CellRadius]),
       uLod |-> u,
       cam |-> [i \in 0..1 |-> [d |-> IF i = 0 THEN d0 ELSE d1, vis |-> TRUE]]] :
        u \in ULods, d0 \in {12 - CellRadius, 11 - CellRadius}, d1 \in BoundaryDistances }

CullBoundary == \E in \in BoundaryInputs : Cull(in)

NextBoundary == CullBoundary \/ Uncull \/ Render \/ SetLodLevels

SpecBoundary == Init /\ [][NextBoundary]_vars

\* ------------------------------------------- culls that may keep no cell
\* culls of two cells, each near, far or outside the frustum, one of which may be
\* empty
RejectingInputs ==
    { [drawCount |-> DrawCount, instanceCount |-> sz[0] + sz[1],
       grid |-> GridOf(2, sz, [i \in 0..1 |-> CellRadius]),
       uLod |-> u,
       cam |-> [i \in 0..1 |-> IF i = 0 THEN c0 ELSE c1]] :
        sz \in { [i \in 0..1 |-> CellSize],
                 [i \in 0..1 |-> IF i = 0 THEN 0 ELSE CellSize],
                 [i \in 0..1 |-> IF i = 1 THEN 0 ELSE CellSize] },
        u \in ULods, c0 \in {Near, Far, Outside}, c1 \in {Near, Far, Outside} }

CullRejecting == \E in \in RejectingInputs : Cull(in)

NextRejecting == CullRejecting \/ Uncull \/ Render \/ SetLodLevels

SpecRejecting == Init /\ [][NextRejecting]_vars

\* ------------------------------------------- opacity
\* values.alpha.ref.value in halves: 0, 0.5, 1
Alphas == {0, 1, 2}
\* state.alphaFactor in halves: -0.5, 0, 0.5, 1, 1.5
AlphaFactors == {-1, 0, 1, 2, 3}

\* ValueCell.update(values.alpha, a), done by the owner of the values
SetAlpha ==
    /\ uAlpha.version < MaxUploads
    /\ \E a \in Alphas : alpha' = a
    /\ op' = "setAlpha"
    /\ in0' = NoInput
    /\ repeated' = FALSE
    /\ passed' = "none"
    /\ UNCHANGED <<heap, mdbData, mdbDataList, cullEnabled, lodLevelsVersion, lodLevels,
                   alphaFactor, uAlpha, rebuilds, expectBatches,
                   shadowValues, shadowLog>>

\* state.alphaFactor = f, done by the owner of the state
SetAlphaFactor ==
    /\ uAlpha.version < MaxUploads
    /\ \E f \in AlphaFactors : alphaFactor' = f
    /\ op' = "setAlphaFactor"
    /\ in0' = NoInput
    /\ repeated' = FALSE
    /\ passed' = "none"
    /\ UNCHANGED <<heap, mdbData, mdbDataList, cullEnabled, lodLevelsVersion, lodLevels,
                   alpha, uAlpha, rebuilds, expectBatches,
                   shadowValues, shadowLog>>

NextAlpha == Render \/ SetAlpha \/ SetAlphaFactor \/ Uncull

SpecAlpha == Init /\ [][NextAlpha]_vars

\* ------------------------------------------- ShadowPass
\* ShadowPass.update without the test of line 101: a new light count is stored but does
\* not ask for an update of the renderable
ShadowPassUpdate_LightCountUntested(v, mode, steps, count) ==
    LET orthographic == IF mode = "orthographic" THEN 1 ELSE 0
        n1 == v.dOrthographic # orthographic
        n2 == v.dSteps # steps
    IN  [values |-> [dOrthographic |-> orthographic, dSteps |-> steps, dLightCount |-> count],
         needsUpdateShadows |-> n1 \/ n2]

\* ShadowPass.update(camera, light, props): the defines after the call and the final
\* value of needsUpdateShadows.  The uniforms written on the way (uProjection,
\* uInvProjection, uBounds, uNear, uFar, uMaxDistance, uTolerance, uBias,
\* uLightDirection, uLightColor) do not enter needsUpdateShadows.
ShadowPassUpdate(v, mode, steps, count) ==
    LET orthographic == IF mode = "orthographic" THEN 1 ELSE 0
        n1 == v.dOrthographic # orthographic
        v1 == IF n1 THEN [v EXCEPT !.dOrthographic = orthographic] ELSE v
        n2 == v1.dSteps # steps
        v2 == IF n2 THEN [v1 EXCEPT !.dSteps = steps] ELSE v1
        n3 == v2.dLightCount # count
        v3 == IF n3 THEN [v2 EXCEPT !.dLightCount = count] ELSE v2
    IN  [values |-> v3, needsUpdateShadows |-> n1 \/ n2 \/ n3]

\* camera.state.mode, props.steps, light.count
CameraModes == {"perspective", "orthographic"}
StepCounts == 1..MaxSteps
LightCounts == 0..MaxLights

\* shadowPass.update(camera, light, props)
ShadowUpdate ==
    /\ shadowLog.updates < MaxShadowUpdates
    /\ \E mode \in CameraModes, steps \in StepCounts, count \in LightCounts :
          \E r \in {ShadowPassUpdate(shadowValues, mode, steps, count)} :
              /\ shadowValues' = r.values
              /\ shadowLog' = [updates |-> IF r.needsUpdateShadows THEN shadowLog.updates + 1
                                           ELSE shadowLog.updates,
                               called  |-> r.needsUpdateShadows,
                               last    |-> <<mode, steps, count>>]
    /\ op' = "shadowUpdate"
    /\ in0' = NoInput
    /\ repeated' = FALSE
    /\ passed' = "none"
    /\ UNCHANGED <<heap, mdbData, mdbDataList, cullEnabled, lodLevelsVersion, lodLevels,
                   alpha, alphaFactor, uAlpha, rebuilds, expectBatches>>

NextShadow == ShadowUpdate

SpecShadow == Init /\ [][NextShadow]_vars

\* ------------------------------------------- a LOD table that changes often
\* culls of a grid of one cell and of a grid of two cells, cell 0 near or far
LodInputs ==
    { [drawCount |-> DrawCount, instanceCount |-> n * CellSize,
       grid |-> GridOf(n, [i \in 0..(n - 1) |-> CellSize], [i \in 0..(n - 1) |-> CellRadius]),
       uLod |-> <<0, 0>>,
       cam |-> [i \in 0..(n - 1) |-> IF i = 0 THEN o ELSE Near]] :
        n \in {1, 2}, o \in {Near, Far} }

CullLodInput == \E in \in LodInputs : Cull(in)

\* ValueCell.update(values.lodLevels, t), up to MaxChanges times
SetLodLevelsOften ==
    /\ lodLevels.present
    /\ lodLevels.version < MaxChanges
    /\ \E t \in LodTables :
          lodLevels' = [lodLevels EXCEPT !.value = t, !.version = lodLevels.version + 1]
    /\ op' = "setLodLevels"
    /\ in0' = NoInput
    /\ repeated' = FALSE
    /\ passed' = "none"
    /\ UNCHANGED <<heap, mdbData, mdbDataList, cullEnabled, lodLevelsVersion,
                   alpha, alphaFactor, uAlpha, rebuilds, expectBatches,
                   shadowValues, shadowLog>>

NextLod == CullLodInput \/ Uncull \/ Render \/ SetLodLevelsOften

SpecLod == Init /\ [][NextLod]_vars

\* ===================================================================
\* The claims.  What follows reads the state; nothing of it is used above.
\* ===================================================================

\* the batch at position j of the list render hands on
Batch(j) == heap[mdbDataList[j]]
BatchIds == DOMAIN mdbDataList
Capacity(b) == Length(b.instanceCounts)
ValidIdx(b) == 0..(b.count - 1)

\* the valid entries of b that cover instance x
Covering(b, x) ==
    { k \in ValidIdx(b) : b.baseInstances[k] <= x /\ x < b.baseInstances[k] + b.instanceCounts[k] }

\* the last call was a cull that passed its three preconditions; in0 is what it read
Culled == op = "cull" /\ in0.drawCount # 0 /\ in0.instanceCount # 0 /\ in0.grid.present
Returned == op = "cull" /\ ~(in0.drawCount # 0 /\ in0.instanceCount # 0 /\ in0.grid.present)

Cells == 0..(in0.grid.cellCount - 1)
CellRange(i) == in0.grid.cellOffsets[i]..(in0.grid.cellOffsets[i + 1] - 1)
InFrustum(i) == in0.cam[i].vis
Dist(i) == in0.cam[i].d
Rad(i) == in0.grid.cellSpheres[i]

MultiBand == lodLevels.present /\ Len(lodLevels.value) > 0
Bands == IF MultiBand THEN 0..(Len(lodLevels.value) - 1) ELSE {}
BandOf(j) == lodLevels.value[j + 1]

\* the inclusive distance test of the specification
InRange(d, r, mn, mx) == d + r >= mn /\ d - r <= mx
LodActive == in0.uLod[1] # 0 \/ in0.uLod[2] # 0
InOverallRange(i) == LodActive => InRange(Dist(i), Rad(i), in0.uLod[1], in0.uLod[2])
InBand(i, j) == InRange(Dist(i), Rad(i), BandOf(j)[1], BandOf(j)[2])

\* C1: render passes the batch list exactly when the most recent cull or uncull was
\* a cull with drawCount # 0, instanceCount # 0 and an instance grid, and passes
\* nothing (undefined) otherwise, also before any cull; render leaves the cull state
\* and the batches as they are.
C1_RenderFollowsLastCull ==
    [][ op' = "render" =>
          /\ passed' = (IF expectBatches THEN "mdbDataList" ELSE "undefined")
          /\ cullEnabled' = cullEnabled
          /\ <<heap, mdbData, mdbDataList, lodLevelsVersion>>' =
             <<heap, mdbData, mdbDataList, lodLevelsVersion>> ]_vars

\* a render that followed a successful cull and was handed the batches
C1_Witness == op = "render" /\ passed = "mdbDataList" /\ expectBatches

\* C2: a cull made with drawCount = 0, instanceCount = 0 or no instance grid changes
\* no batch (arrays, count, uniforms), not the batch list and not the recorded LOD
\* version, and leaves culling disabled; a render that follows passes no batches.
C2_EarlyReturnIsNoOp ==
    [][ /\ (op' = "cull" /\ ~(in0'.drawCount # 0 /\ in0'.instanceCount # 0 /\ in0'.grid.present))
           => /\ <<heap, mdbData, mdbDataList, lodLevelsVersion>>' =
                 <<heap, mdbData, mdbDataList, lodLevelsVersion>>
              /\ cullEnabled' = FALSE
        /\ (Returned /\ op' = "render") => passed' = "undefined" ]_vars

\* a cull that returned early although an earlier cull had filled a batch
C2_Witness ==
    /\ Returned
    /\ ~cullEnabled
    /\ \E j \in BatchIds : Batch(j).count > 0

\* C3: after a successful cull no valid entry of any batch covers an instance of a
\* cell whose sphere failed the frustum test.
C3_VisibilitySoundness ==
    Culled =>
        \A i \in Cells : ~InFrustum(i) =>
            \A j \in BatchIds : \A x \in CellRange(i) : Covering(Batch(j), x) = {}

\* a non-empty cell outside the frustum splits a batch into two entries
C3_Witness ==
    /\ Culled
    /\ \E i \in Cells : ~InFrustum(i) /\ CellRange(i) # {}
    /\ \E j \in BatchIds : Batch(j).count = 2

\* C4: after a successful cull every instance of a cell that intersects the frustum
\* and, when uLod gives a range, lies within that range is covered by exactly one
\* valid entry of the single batch, resp. of the batch of every band whose range the
\* cell lies within.
C4_VisibilityCompleteness ==
    Culled =>
        \A i \in Cells : (InFrustum(i) /\ InOverallRange(i)) =>
            \A j \in BatchIds : (MultiBand => InBand(i, j)) =>
                \A x \in CellRange(i) : Cardinality(Covering(Batch(j), x)) = 1

\* a multi-band cull under an active uLod range: a band holds two entries, of cells
\* within the ranges, around a non-empty cell that the uLod range rejected
C4_Witness ==
    /\ Culled /\ MultiBand /\ LodActive
    /\ \E j \in BatchIds : Batch(j).count = 2
    /\ \E i \in Cells : CellRange(i) # {} /\ InFrustum(i) /\ InOverallRange(i) /\ InBand(i, 0)
    /\ \E i \in Cells : CellRange(i) # {} /\ InFrustum(i) /\ ~InOverallRange(i)

\* cell i passes every test that stands between it and batch j
Kept(i, j) == InFrustum(i) /\ InOverallRange(i) /\ (MultiBand => InBand(i, j))
Survivor(i, j) == Kept(i, j) /\ CellRange(i) # {}
Begin(i) == in0.grid.cellOffsets[i]
Entries(b) == { <<b.baseInstances[k], b.instanceCounts[k]>> : k \in ValidIdx(b) }

\* no two consecutive valid entries touch: touching ranges were merged
NoTouching(b) ==
    \A k \in ValidIdx(b) : (k + 1) \in ValidIdx(b) =>
        b.baseInstances[k] + b.instanceCounts[k] # b.baseInstances[k + 1]

\* a..b is a maximal run of consecutively indexed cells kept for batch j
VisibleRun(a, b, j) ==
    /\ a <= b
    /\ \A k \in a..b : Kept(k, j)
    /\ a = 0 \/ ~Kept(a - 1, j)
    /\ b = in0.grid.cellCount - 1 \/ ~Kept(b + 1, j)

\* C5, as claimed: every maximal run of consecutively indexed kept cells has exactly
\* one entry in the batch, from the first cell's begin over the sum of the sizes, and
\* touching ranges are merged.
C5_Original ==
    Culled =>
        \A j \in BatchIds :
            /\ \A a, b \in Cells : VisibleRun(a, b, j) =>
                   Cardinality({ k \in ValidIdx(Batch(j)) :
                                   /\ Batch(j).baseInstances[k] = Begin(a)
                                   /\ Batch(j).instanceCounts[k] = Begin(b + 1) - Begin(a) }) = 1
            /\ NoTouching(Batch(j))

\* a..b is a maximal stretch of cells that are kept and non-empty or else empty,
\* beginning and ending with a kept non-empty cell
Stretch(a, b, j) ==
    /\ a <= b /\ Survivor(a, j) /\ Survivor(b, j)
    /\ \A k \in a..b : Survivor(k, j) \/ CellRange(k) = {}
    /\ ~\E a2 \in Cells : a2 < a /\ Survivor(a2, j)
                          /\ \A k \in a2..a : Survivor(k, j) \/ CellRange(k) = {}
    /\ ~\E b2 \in Cells : b2 > b /\ Survivor(b2, j)
                          /\ \A k \in b..b2 : Survivor(k, j) \/ CellRange(k) = {}

\* C5, amended: the valid entries of a batch are exactly the maximal stretches of
\* kept non-empty cells that no rejected non-empty cell interrupts (empty cells,
\* kept or rejected, do not interrupt), one entry each, from the first cell's begin
\* over the sum of the sizes; touching ranges are merged.
C5_MergeCorrectness ==
    Culled =>
        \A j \in BatchIds :
            LET stretches == { ab \in Cells \X Cells : Stretch(ab[1], ab[2], j) }
            IN  /\ Entries(Batch(j)) =
                      { <<Begin(ab[1]), Begin(ab[2] + 1) - Begin(ab[1])>> : ab \in stretches }
                /\ Batch(j).count = Cardinality(stretches)
                /\ NoTouching(Batch(j))

\* two kept cells were merged across an empty cell that was rejected
C5_Witness ==
    /\ Culled
    /\ \E j \in BatchIds : \E a, b \in Cells :
          /\ Stretch(a, b, j)
          /\ \E k \in a..b : ~Kept(k, j)
          /\ Batch(j).count = 1

\* C6: after a successful cull the valid entries of every batch have positive instance
\* counts, strictly increasing base instances and disjoint ranges.
C6_BatchInvariant ==
    Culled =>
        \A j \in BatchIds :
            LET b == Batch(j)
            IN  /\ \A k \in ValidIdx(b) : b.instanceCounts[k] > 0
                /\ \A k \in ValidIdx(b) : (k + 1) \in ValidIdx(b) =>
                      /\ b.baseInstances[k] < b.baseInstances[k + 1]
                      /\ b.baseInstances[k] + b.instanceCounts[k] <= b.baseInstances[k + 1]

\* a batch with two entries
C6_Witness == Culled /\ \E j \in BatchIds : Batch(j).count = 2

\* what the draw layer reads of batch j: its count and its valid entries
Drawn(j) ==
    [count |-> Batch(j).count,
     entries |-> [k \in ValidIdx(Batch(j)) |->
                     <<Batch(j).counts[k], Batch(j).instanceCounts[k], Batch(j).baseInstances[k]>>]]

\* C7: a cull that follows a cull at once and reads the same leaves every batch with
\* the count and valid entries it had, and updates no uniforms value cell.
C7_Idempotence ==
    [][ (op = "cull" /\ op' = "cull" /\ in0' = in0) =>
          /\ BatchIds' = BatchIds
          /\ \A j \in BatchIds :
                /\ Drawn(j)' = Drawn(j)
                /\ Batch(j).uniforms' = Batch(j).uniforms ]_vars

\* a successful multi-band cull repeated with the same input
C7_Witness ==
    /\ repeated /\ Culled /\ MultiBand
    /\ \E j \in BatchIds : Batch(j).count > 0 /\ Len(Batch(j).uniforms) = 1

\* C8, as claimed: no position of the batch list ever gets a batch of smaller capacity,
\* and after a successful cull every count is at most cellCount and at most the capacity.
C8_Original ==
    [][ /\ \A j \in BatchIds \cap BatchIds' : Capacity(Batch(j))' >= Capacity(Batch(j))
        /\ Culled' => \A j \in BatchIds' :
                         /\ Batch(j).count' <= in0'.grid.cellCount
                         /\ Batch(j).count' <= Capacity(Batch(j))' ]_vars

\* C8, amended: mdbData's capacity never decreases, and it is reused as is when it is
\* large enough; on a multi-band cull a list position that existed before keeps its
\* batch when that is large enough and gets a larger one otherwise; the single-batch
\* path makes mdbData the only batch of the list (it may be shorter than the batch it
\* replaces).  After a successful cull count <= cellCount <= capacity for every batch.
C8_BufferReuse ==
    [][ /\ Capacity(heap[mdbData])' >= Capacity(heap[mdbData])
        /\ (Culled' /\ MultiBand) =>
              \A j \in BatchIds \cap BatchIds' :
                 /\ Capacity(Batch(j))' >= Capacity(Batch(j))
                 /\ Capacity(Batch(j)) >= in0'.grid.cellCount => mdbDataList'[j] = mdbDataList[j]
        /\ (Culled' /\ ~MultiBand) =>
              /\ Capacity(heap[mdbData]) >= in0'.grid.cellCount => mdbData' = mdbData
              /\ mdbDataList' = [j \in {0} |-> mdbData']
        /\ Culled' => \A j \in BatchIds' :
                         /\ Batch(j).count' <= in0'.grid.cellCount
                         /\ in0'.grid.cellCount <= Capacity(Batch(j))' ]_vars

\* a cull of a small grid found larger batches and kept them
C8_Witness ==
    /\ Culled
    /\ \E j \in BatchIds : Capacity(Batch(j)) > in0.grid.cellCount

\* the example's case: its grid, no bands, cells 0, 2 and 3 inside the frustum
ExampleCase ==
    /\ Culled /\ in0.grid = ExampleGrid /\ ~MultiBand
    /\ \A i \in {0, 2, 3} : InFrustum(i)

\* C9, as claimed: the example yields the two entries {0, 10} and {10, 30}.
C9_Original ==
    ExampleCase =>
        /\ Batch(0).count = 2
        /\ Batch(0).baseInstances[0] = 0 /\ Batch(0).instanceCounts[0] = 10
        /\ Batch(0).baseInstances[1] = 10 /\ Batch(0).instanceCounts[1] = 30

\* C9, amended: the example (cells 0, 2 and 3 within the uLod range if there is one)
\* yields the single entry {baseInstance: 0, instanceCount: 40}: cell 2 begins where
\* the entry of cell 0 ends and is merged into it, and so is cell 3.
C9_ExampleOneEntry ==
    (ExampleCase /\ \A i \in {0, 2, 3} : InOverallRange(i)) =>
        /\ BatchIds = {0}
        /\ Batch(0).count = 1
        /\ Batch(0).baseInstances[0] = 0 /\ Batch(0).instanceCounts[0] = 40
        /\ Batch(0).counts[0] = in0.drawCount

\* the example was culled with its empty cell outside the frustum
C9_Witness ==
    /\ ExampleCase /\ ~InFrustum(1)
    /\ \A i \in {0, 2, 3} : InOverallRange(i)
    /\ Batch(0).count = 1

\* every instance of cell i is covered by a valid entry of batch j
InBatch(i, j) == \A x \in CellRange(i) : Covering(Batch(j), x) # {}

\* the two bands [0, 50] and [40, 100] of the example
OverlapTable ==
    /\ MultiBand /\ Len(lodLevels.value) = 2
    /\ BandOf(0)[1] = 0 /\ BandOf(0)[2] = 50
    /\ BandOf(1)[1] = 40 /\ BandOf(1)[2] = 100

\* C10, as claimed: a non-empty cell that intersects the frustum is in the batch of
\* every band it lies within; with bands [0, 50] and [40, 100] a cell at distance 45
\* of radius 2 is in both batches.
C10_Original ==
    (Culled /\ MultiBand) =>
        \A i \in Cells : (CellRange(i) # {} /\ InFrustum(i)) =>
            /\ \A j \in Bands : InBand(i, j) => InBatch(i, j)
            /\ (OverlapTable /\ Dist(i) = 45 /\ Rad(i) = 2) => (InBatch(i, 0) /\ InBatch(i, 1))

\* C10, amended: a non-empty cell that intersects the frustum and lies within the
\* uLod range (tested in multi-band mode too, whenever uLod's minimum or maximum is
\* not 0) is in the batch of band j exactly if it lies within band j's range, each
\* band by itself; with bands [0, 50] and [40, 100] such a cell at distance 45 of
\* radius 2 is in both batches.
C10_OverlappingBands ==
    (Culled /\ MultiBand) =>
        \A i \in Cells : (CellRange(i) # {} /\ InFrustum(i) /\ InOverallRange(i)) =>
            /\ \A j \in Bands : InBand(i, j) <=> InBatch(i, j)
            /\ (OverlapTable /\ Dist(i) = 45 /\ Rad(i) = 2) => (InBatch(i, 0) /\ InBatch(i, 1))

\* the example's cell, in both batches, beside a cell that is in the first band only
C10_Witness ==
    /\ Culled /\ OverlapTable
    /\ \E i \in Cells : /\ Dist(i) = 45 /\ Rad(i) = 2 /\ CellRange(i) # {}
                        /\ InBatch(i, 0) /\ InBatch(i, 1)
    /\ \E i \in Cells : CellRange(i) # {} /\ InBatch(i, 0) /\ ~InBatch(i, 1)

\* cellOffsets is non-decreasing and ends at the total instance count
ValidPartition(in) ==
    /\ \A i \in 0..(in.grid.cellCount - 1) : in.grid.cellOffsets[i] <= in.grid.cellOffsets[i + 1]
    /\ in.grid.cellOffsets[in.grid.cellCount] = in.instanceCount

\* C11: a cull that reads an instance grid whose cellOffsets is not non-decreasing, or
\* does not end at the total instance count, is rejected before culling runs: it
\* writes no batch and does not end in the culled state; in particular no valid entry
\* with a negative instanceCount is ever handed to render.
C11_Original ==
    [][ (op' = "cull" /\ in0'.grid.present /\ ~ValidPartition(in0')) =>
          /\ <<heap, mdbData, mdbDataList>>' = <<heap, mdbData, mdbDataList>>
          /\ cullEnabled' = FALSE
          /\ \A j \in BatchIds' : \A k \in ValidIdx(Batch(j)') : Batch(j).instanceCounts'[k] >= 0 ]_vars


\* the batches of the list are distinct objects, none missing
ListIsSound ==
    /\ \A j \in BatchIds : mdbDataList[j] # 0 /\ mdbDataList[j] \in DOMAIN heap
    /\ \A j, k \in BatchIds : j # k => mdbDataList[j] # mdbDataList[k]

\* C12: after every successful cull the batch list holds exactly one batch per band
\* of the LOD table if the table is not empty, and exactly one batch, without uniform
\* overrides, if the table is empty or absent -- however the table grew, shrank,
\* emptied and refilled before.
C12_NumberOfBatches ==
    Culled =>
        /\ ListIsSound
        /\ MultiBand => BatchIds = 0..(Len(lodLevels.value) - 1)
        /\ ~MultiBand => (BatchIds = {0} /\ Batch(0).uniforms = << >> /\ mdbDataList[0] = mdbData)

\* a single-batch cull at the last version of the table, while the uniforms were last
\* rebuilt at the version before: the table had bands through several changes and
\* was then emptied
C12_Witness ==
    /\ Culled
    /\ lodLevels.version = MaxChanges
    /\ lodLevelsVersion = MaxChanges - 1
    /\ ~MultiBand
    /\ BatchIds = {0}


\* C13, as claimed: with an empty (or absent) LOD table every non-empty cell whose
\* sphere intersects the frustum is in the single batch, whatever its distance.
C13_Original ==
    (Culled /\ ~MultiBand) =>
        \A i \in Cells : (CellRange(i) # {} /\ InFrustum(i)) => InBatch(i, 0)

\* C13, amended: with an empty (or absent) LOD table a non-empty cell whose sphere
\* intersects the frustum is in the single batch exactly if it passes the uLod range
\* test, which is applied whenever uLod's minimum or maximum is not 0; only with
\* uLod = (0, 0) is there no distance restriction.
C13_NoRestrictionWithoutULod ==
    (Culled /\ ~MultiBand) =>
        \A i \in Cells : (CellRange(i) # {} /\ InFrustum(i)) =>
            /\ InBatch(i, 0) <=> InOverallRange(i)
            /\ ~LodActive => InBatch(i, 0)

\* uLod is (0, 0), the table is empty, and a far cell is in the single batch
C13_Witness ==
    /\ Culled /\ ~MultiBand /\ ~LodActive
    /\ \E i \in Cells : CellRange(i) # {} /\ InFrustum(i) /\ Dist(i) = 45 /\ InBatch(i, 0)


\* (min, max, overlap, sizeFactor) of band j
BandParams(j) == <<BandOf(j)[1], BandOf(j)[2], BandOf(j)[3], BandOf(j)[5]>>

\* the step has run ValueCell.update on the uniform of the batch at position j
RewrittenAt(j) ==
    LET id == mdbDataList'[j]
    IN  /\ Len(heap'[id].uniforms) = 1
        /\ \/ id \notin DOMAIN heap
           \/ Len(heap[id].uniforms) # 1
           \/ heap[id].uniforms[1].version # heap'[id].uniforms[1].version

\* C14: a successful multi-band cull rewrites the uniforms of its bands if and only if
\* the table's version differs from the recorded version; when it does, every band's
\* single uniform becomes (min, max, overlap, sizeFactor) of that band and the table's
\* version is recorded; no other cull rewrites uniforms or records a version; and the
\* number of rebuilds never exceeds the number of version changes plus one.
C14_VersionGatedRebuild ==
    [][ /\ (op' = "cull" /\ Preconditions(in0') /\ MultiBand) =>
              /\ \A j \in BatchIds' : RewrittenAt(j) <=> (lodLevels.version # lodLevelsVersion)
              /\ (rebuilds' = rebuilds + 1) <=> (lodLevels.version # lodLevelsVersion)
              /\ (lodLevels.version # lodLevelsVersion) =>
                    \A j \in BatchIds' :
                       /\ Len(Batch(j).uniforms') = 1
                       /\ Batch(j).uniforms'[1].name = "uLod"
                       /\ Batch(j).uniforms'[1].value = BandParams(j)
              /\ lodLevelsVersion' = lodLevels.version
        /\ ~(op' = "cull" /\ Preconditions(in0') /\ MultiBand) =>
              /\ rebuilds' = rebuilds
              /\ lodLevelsVersion' = lodLevelsVersion
        /\ rebuilds' <= lodLevels'.version + 1 ]_vars

\* the table has changed MaxChanges times and the uniforms were rebuilt after every
\* change and once before the first
C14_Witness ==
    /\ Culled /\ MultiBand
    /\ lodLevels.version = MaxChanges
    /\ rebuilds = MaxChanges + 1
    /\ \A j \in BatchIds : Len(Batch(j).uniforms) = 1 /\ Batch(j).uniforms[1].value = BandParams(j)


\* C15: after every successful multi-band cull, whatever culls came before, the batch
\* of every band carries exactly one uniform override, named uLod, whose value is
\* (min, max, overlap, sizeFactor) of that band in the current table.
C15_Original ==
    (Culled /\ MultiBand) =>
        \A j \in BatchIds :
            /\ Len(Batch(j).uniforms) = 1
            /\ Batch(j).uniforms[1].name = "uLod"
            /\ Batch(j).uniforms[1].value = BandParams(j)


\* what the draw layer reads of a batch: its count and its valid entries
DrawnOf(b) ==
    [count |-> b.count,
     entries |-> [k \in ValidIdx(b) |-> <<b.counts[k], b.instanceCounts[k], b.baseInstances[k]>>]]

\* C16: after a successful cull the list has the positions, and every batch the count
\* and valid entries, that the same call (same camera answers, grid, uLod, draw count
\* and LOD table) gives on a renderable just created -- whatever culls, unculls,
\* renders and table changes came before, and also when the table's version is the
\* recorded one.
C16_HistoryIndependence ==
    Culled =>
        LET f == cull(FreshState, in0, lodLevels)
        IN  /\ DOMAIN f.mdbDataList = BatchIds
            /\ \A j \in BatchIds : DrawnOf(Batch(j)) = DrawnOf(f.heap[f.mdbDataList[j]])

\* a multi-band cull at the recorded version whose batch still holds, beyond its
\* count, an entry that an earlier cull wrote
C16_Witness ==
    /\ Culled /\ MultiBand /\ repeated = FALSE
    /\ rebuilds = 1 /\ lodLevelsVersion = lodLevels.version
    /\ \E j \in BatchIds :
          /\ Batch(j).count > 0
          /\ Batch(j).count < Capacity(Batch(j))
          /\ Batch(j).instanceCounts[Batch(j).count] # 0


\* the sphere of cell i touches the bound mn or the bound mx from inside
Touches(i, mn, mx) ==
    /\ InRange(Dist(i), Rad(i), mn, mx)
    /\ Dist(i) + Rad(i) = mn \/ Dist(i) - Rad(i) = mx

\* C17: a distance range [min, max] rejects a cell only if d + r < min or d - r > max:
\* a visible non-empty cell is in a batch exactly if d + r >= min and d - r <= max for
\* the uLod range (when uLod is not (0, 0)) and for the band's range (when there are
\* bands); in particular a cell with d + r = min or d - r = max is kept.
C17_InclusiveDistanceTest ==
    Culled =>
        \A i \in Cells : (CellRange(i) # {} /\ InFrustum(i)) =>
            \A j \in BatchIds :
                /\ InBatch(i, j) <=> (InOverallRange(i) /\ (MultiBand => InBand(i, j)))
                /\ (/\ LodActive => Touches(i, in0.uLod[1], in0.uLod[2])
                    /\ MultiBand => Touches(i, BandOf(j)[1], BandOf(j)[2])
                    /\ LodActive \/ MultiBand) => InBatch(i, j)

\* cell 0 touches the lower bound of the uLod range, cell 1 the upper bound of band 0
\* (and lies within the uLod range), and both are in band 0's batch
C17_Witness ==
    /\ Culled /\ MultiBand /\ LodActive
    /\ Dist(0) + Rad(0) = in0.uLod[1] /\ InBatch(0, 0)
    /\ Dist(1) - Rad(1) = BandOf(0)[2] /\ InBatch(1, 0)


\* the last call was a successful cull in which no cell passed all tests of any batch
AllRejected ==
    /\ Culled
    /\ \A i \in Cells : \A j \in BatchIds : ~Survivor(i, j)

\* C18: a cull that passes its preconditions and rejects every cell (outside the
\* frustum, outside the distance range, or empty) ends in the culled state with the
\* count of every batch 0, and a render that follows passes these empty batches, not
\* undefined.
C18_AllRejectedStillCulled ==
    [][ /\ AllRejected' =>
              /\ cullEnabled'
              /\ BatchIds' # {}
              /\ \A j \in BatchIds' : Batch(j).count' = 0
        /\ (AllRejected /\ op' = "render") =>
              /\ passed' = "mdbDataList"
              /\ \A j \in BatchIds' : Batch(j).count' = 0 ]_vars

\* an empty cell and a visible cell outside the distance range: nothing is kept, the
\* renderable is culled, and a batch still holds an entry of an earlier cull
C18_Witness ==
    /\ AllRejected /\ cullEnabled
    /\ \E i \in Cells : CellRange(i) = {}
    /\ \E i \in Cells : CellRange(i) # {} /\ InFrustum(i)
    /\ \E j \in BatchIds : Batch(j).count = 0 /\ Batch(j).instanceCounts[0] # 0


\* the opacity the claim expects: alpha times alphaFactor, limited to [0, 1]
\* (the product of two halves is counted in quarters: 1 is 4 quarters)
ExpectedOpacity ==
    IF alpha * alphaFactor < 0 THEN 0
    ELSE IF alpha * alphaFactor > 4 THEN 4 ELSE alpha * alphaFactor

\* C19: every render leaves uAlpha at alpha * alphaFactor limited to [0, 1]; it
\* updates the value cell (one version more) if that differs from the value stored and
\* leaves the cell as it is otherwise; uAlpha stays within [0, 1]; and a render that
\* follows a render at once, alpha and alphaFactor unchanged, updates nothing.
C19_OpacityDirtyCheck ==
    [][ /\ op' = "render" =>
              /\ uAlpha'.value = ExpectedOpacity
              /\ uAlpha.value # ExpectedOpacity => uAlpha'.version = uAlpha.version + 1
              /\ uAlpha.value = ExpectedOpacity => uAlpha' = uAlpha
              /\ (op = "render") => uAlpha' = uAlpha
        /\ uAlpha'.value >= 0 /\ uAlpha'.value <= 4 ]_vars

\* a render that limited 1 * 1.5 to 1 and updated uAlpha, after earlier updates
C19_Witness ==
    /\ op = "render"
    /\ alpha * alphaFactor > 4
    /\ uAlpha.value = 4
    /\ uAlpha.version >= 2


\* the orthographic flag of a camera mode
OrthographicOf(mode) == IF mode = "orthographic" THEN 1 ELSE 0

\* C20: ShadowPass.update calls shadowsRenderable.update() if and only if one of the
\* three defines differs from what the call is given (dOrthographic from the camera
\* mode's flag, dSteps from props.steps, dLightCount from light.count); after the call
\* the three defines are what was given; an update repeated at once with the same
\* camera mode, steps and light count makes no call.
C20_ShadowUpdateIffDefineChanged ==
    [][ op' = "shadowUpdate" =>
          LET given   == shadowLog'.last
              changed == \/ shadowValues.dOrthographic # OrthographicOf(given[1])
                         \/ shadowValues.dSteps # given[2]
                         \/ shadowValues.dLightCount # given[3]
          IN  /\ shadowLog'.called <=> changed
              /\ shadowLog'.updates = shadowLog.updates + (IF changed THEN 1 ELSE 0)
              /\ shadowValues' = [dOrthographic |-> OrthographicOf(given[1]),
                                  dSteps |-> given[2], dLightCount |-> given[3]]
              /\ (op = "shadowUpdate" /\ given = shadowLog.last) =>
                    (~shadowLog'.called /\ shadowLog'.updates = shadowLog.updates) ]_vars

\* an update that made no call, because it was given what the defines already were
\* (orthographic, 1 step, MaxLights lights), after two updates that had made one each
C20_Witness ==
    /\ op = "shadowUpdate"
    /\ ~shadowLog.called
    /\ shadowLog.updates = 2
    /\ shadowValues = [dOrthographic |-> 1, dSteps |-> 1, dLightCount |-> MaxLights]


====
